---- MODULE Spec2Model ----
(***************************************************************************)
(* Model of teste12.py: a Streamlit script that computes the weight of a   *)
(* rectangular steel plate, builds its 12-triangle mesh, writes chapa.stl  *)
(* and chapa.dxf and previews the mesh kept in the session state.          *)
(*                                                                         *)
(* One step of the model is one run of the script (Streamlit reruns the    *)
(* whole script on every widget interaction).  Lengths are whole           *)
(* millimetres; quotients are exact rationals <<numerator, denominator>>   *)
(* in lowest terms, standing for the float64 values of the script.         *)
(***************************************************************************)
EXTENDS Integers, Sequences, FiniteSets, TLC

VARIABLES
    width,          \* st.number_input 'Largura (mm)'
    length,         \* st.number_input 'Comprimento (mm)'
    thickness,      \* st.number_input 'Espessura (mm)'
    steel_type,     \* st.selectbox
    opacity_value,  \* st.slider, in tenths (10 = 1.0)
    plate_mesh,     \* st.session_state.plate_mesh: None or the vectors of the Mesh
    stl_file,       \* contents of chapa.stl on disk
    dxf_file,       \* contents of chapa.dxf on disk
    button,         \* value of st.button('Gerar Chapa') in the latest run
    fault,          \* where the latest run raised: "none", "stl" or "dxf"
    out,            \* locals and page elements of the latest run
    mesh_call,      \* history: the generate run plate_mesh came from (the arguments and
                    \* vertices of its create_plate call, whether the mesh before it came
                    \* from the same arguments, whether the run before it raised)
    runs            \* history: number of script reruns so far

vars == <<width, length, thickness, steel_type, opacity_value, plate_mesh,
          stl_file, dxf_file, button, fault, out, mesh_call, runs>>

(***************************************************************************)
(* Bounds of the model.                                                    *)
(***************************************************************************)
MaxDim == 1       \* a session's user types dimensions in 0..MaxDim (or keeps the default)
MaxCalc == 2      \* SpecCalc draws dimensions from 0..MaxCalc and the spec's scenarios
MaxSteel == 2     \* a session's user selects among the first MaxSteel grades
MaxOpacitySteps == 1  \* a session's user moves the slider at most this many steps below 1.0
MaxRuns == 4      \* script reruns explored in one session

None == <<>>            \* None, and an element the page does not show

\* a file on disk: absent, holding what a completed save wrote, or left
\* incomplete by a save that raised after opening it for writing
AbsentFile == [state |-> "absent", data |-> <<>>]
PartialFile == [state |-> "partial", data |-> <<>>]
Written(data) == [state |-> "written", data |-> data]

(***************************************************************************)
(* Exact rationals.                                                        *)
(***************************************************************************)
Abs(n) == IF n < 0 THEN -n ELSE n

RECURSIVE GCD(_, _)
GCD(a, b) == IF b = 0 THEN a ELSE GCD(b, a % b)

Rat(n, d) ==
    LET g == GCD(Abs(n), Abs(d))
    IN  IF n = 0 THEN <<0, 1>> ELSE <<n \div g, d \div g>>

RMul(p, q) == Rat(p[1] * q[1], p[2] * q[2])
RDiv(p, q) == Rat(p[1] * q[2], p[2] * q[1])
RInt(n) == <<n, 1>>

(***************************************************************************)
(* steel_types: grade -> density in g/cm3.                                 *)
(***************************************************************************)
steel_types ==
    ("SAE 1020" :> Rat(785, 100)) @@
    ("SAE 1045" :> Rat(785, 100)) @@
    ("ASTM A36" :> Rat(785, 100)) @@
    ("SAE 4140" :> Rat(785, 100)) @@
    ("SAE 8620" :> Rat(785, 100)) @@
    ("AISI 304" :> Rat(800, 100)) @@
    ("AISI 316" :> Rat(798, 100)) @@
    ("SAE 4340" :> Rat(785, 100)) @@
    ("SAE 1212" :> Rat(785, 100)) @@
    ("AISI 420" :> Rat(770, 100))

\* list(steel_types.keys()): the options of the selectbox, in insertion order
SteelNames ==
    << "SAE 1020", "SAE 1045", "ASTM A36", "SAE 4140", "SAE 8620",
       "AISI 304", "AISI 316", "SAE 4340", "SAE 1212", "AISI 420" >>

(***************************************************************************)
(* calculate_volume, calculate_weight.                                     *)
(***************************************************************************)
calculate_volume(w, l, t) == w * l * t

\* variant: the mm3 -> cm3 conversion is left out
calculate_weight_mm3(volume, density) == RMul(RInt(volume), density)

calculate_weight(volume, density) ==
    LET volume_cm3 == RDiv(RInt(volume), RInt(1000))
    IN  RMul(volume_cm3, density)

(***************************************************************************)
(* create_plate.  vertices is a float64 array; the vectors of the          *)
(* numpy-stl Mesh are float32, so each coordinate is cast on assignment.   *)
(***************************************************************************)
\* float32 holds every whole number up to 2^24 exactly and rounds a larger
\* one to the nearest multiple of its spacing, ties to the even multiple
RECURSIVE Spacing(_, _)
Spacing(n, p) == IF n < p * 16777216 THEN p ELSE Spacing(n, 2 * p)

RoundToSpacing(n, ulp) ==
    LET lo == (n \div ulp) * ulp
        rem == n - lo
    IN  IF 2 * rem > ulp \/ (2 * rem = ulp /\ (lo \div ulp) % 2 = 1)
        THEN lo + ulp ELSE lo

float32(n) ==
    IF Abs(n) <= 16777216 THEN n
    ELSE IF n < 0 THEN -RoundToSpacing(-n, Spacing(-n, 1))
    ELSE RoundToSpacing(n, Spacing(n, 1))

\* variant: the third and fourth corner of each face in the other order
plate_vertices_swapped(w, l, t) ==
    << <<0, 0, 0>>,
       <<w, 0, 0>>,
       <<0, l, 0>>,
       <<w, l, 0>>,
       <<0, 0, t>>,
       <<w, 0, t>>,
       <<0, l, t>>,
       <<w, l, t>> >>

plate_vertices(w, l, t) ==
    << <<0, 0, 0>>,
       <<w, 0, 0>>,
       <<w, l, 0>>,
       <<0, l, 0>>,
       <<0, 0, t>>,
       <<w, 0, t>>,
       <<w, l, t>>,
       <<0, l, t>> >>

\* variant: the first bottom triangle wound the other way
faces_flipped ==
    << <<0, 1, 3>>, <<1, 3, 2>>,
       <<4, 5, 7>>, <<5, 6, 7>>,
       <<0, 1, 4>>, <<1, 5, 4>>,
       <<1, 2, 5>>, <<2, 6, 5>>,
       <<2, 3, 6>>, <<3, 7, 6>>,
       <<3, 0, 7>>, <<0, 4, 7>> >>

\* the face table, vertex numbers as in the source (0-based)
faces ==
    << <<0, 3, 1>>, <<1, 3, 2>>,
       <<4, 5, 7>>, <<5, 6, 7>>,
       <<0, 1, 4>>, <<1, 5, 4>>,
       <<1, 2, 5>>, <<2, 6, 5>>,
       <<2, 3, 6>>, <<3, 7, 6>>,
       <<3, 0, 7>>, <<0, 4, 7>> >>

\* vertices[n, :] for a 0-based row number n
Row(vertices, n) == vertices[n + 1]

\* variant: triangles of zero area (a plate of thickness 0) are dropped
create_plate_no_degenerate(w, l, t) ==
    LET vertices == plate_vertices(w, l, t)
        kept == IF t = 0 THEN SubSeq(faces, 1, 4) ELSE faces
        vectors == [i \in 1..Len(kept) |->
                      [j \in 1..3 |->
                         [c \in 1..3 |-> float32(Row(vertices, kept[i][j])[c])]]]
    IN  [plate |-> vectors, vertices |-> vertices]

create_plate(w, l, t) ==
    LET vertices == plate_vertices(w, l, t)
        vectors == [i \in 1..Len(faces) |->
                      [j \in 1..3 |->
                         [c \in 1..3 |-> float32(Row(vertices, faces[i][j])[c])]]]
    IN  [plate |-> vectors, vertices |-> vertices]

(***************************************************************************)
(* create_dxf_from_numpy: the LINE entities added to the modelspace.       *)
(***************************************************************************)
\* variant: range(3), the closing segment 3 -> 0 is left out
create_dxf_open(vertices) ==
    [n \in 1..3 |->
        LET i == n - 1
            start_point == Row(vertices, i)
            end_point == Row(vertices, (i + 1) % 4)
        IN  [start |-> SubSeq(start_point, 1, 2), end |-> SubSeq(end_point, 1, 2)]]

create_dxf_from_numpy(vertices) ==
    [n \in 1..4 |->
        LET i == n - 1
            start_point == Row(vertices, i)
            end_point == Row(vertices, (i + 1) % 4)
        IN  [start |-> SubSeq(start_point, 1, 2), end |-> SubSeq(end_point, 1, 2)]]

(***************************************************************************)
(* mesh_to_plotly.                                                         *)
(***************************************************************************)
\* list(range(start, stop, 3))
Range3(start, stop) ==
    [n \in 1..(IF stop > start THEN (stop - start + 2) \div 3 ELSE 0) |->
        start + 3 * (n - 1)]

\* variant: the corners taken corner-major (all first corners, then all second ...)
ReshapeCornerMajor(vectors) ==
    [n \in 1..(3 * Len(vectors)) |->
        vectors[((n - 1) % Len(vectors)) + 1][((n - 1) \div Len(vectors)) + 1]]

\* vectors.reshape(-1, 3): the 36 corner points, triangle after triangle
Reshape(vectors) ==
    [n \in 1..(3 * Len(vectors)) |-> vectors[((n - 1) \div 3) + 1][((n - 1) % 3) + 1]]

mesh_to_plotly(mesh, opacity) ==
    LET pts == Reshape(mesh)
        x == [n \in 1..Len(pts) |-> pts[n][1]]
        y == [n \in 1..Len(pts) |-> pts[n][2]]
        z == [n \in 1..Len(pts) |-> pts[n][3]]
    IN  [x |-> x, y |-> y, z |-> z,
         i |-> Range3(0, Len(x)),
         j |-> Range3(1, Len(y)),
         k |-> Range3(2, Len(z)),
         opacity |-> opacity]

(***************************************************************************)
(* f'{weight:.3f}': the weight in thousandths of a kg, rounded half to     *)
(* even.                                                                   *)
(***************************************************************************)
Format3(r) ==
    LET n == r[1] * 1000
        d == r[2]
        lo == n \div d
        rem == n - lo * d
    IN  IF 2 * rem > d \/ (2 * rem = d /\ lo % 2 = 1) THEN lo + 1 ELSE lo

(***************************************************************************)
(* One run of the script with the widgets at (w, l, t, s, o).  pressed is  *)
(* the value of st.button; outcome says whether and where a file write of  *)
(* the generate block raises.                                              *)
(***************************************************************************)
Outcomes == {"ok", "stl_denied", "stl_partial", "dxf_denied", "dxf_partial"}

StlRaises(outcome) == outcome \in {"stl_denied", "stl_partial"}
DxfRaises(outcome) == outcome \in {"dxf_denied", "dxf_partial"}

\* variant: the mesh is built in the buffer of the session's mesh, adding to
\* what it holds
GenerateLocalsReused(w, l, t, s) ==
    LET made == create_plate(w, l, t)
        volume == calculate_volume(w, l, t)
        density == steel_types[s]
        weight == RDiv(calculate_weight(volume, density), RInt(1000))
        plate == IF plate_mesh = None THEN made.plate
                 ELSE [i \in 1..Len(made.plate) |->
                         [j \in 1..3 |->
                            [c \in 1..3 |-> plate_mesh[i][j][c] + made.plate[i][j][c]]]]
    IN  [plate |-> plate, vertices |-> made.vertices,
         volume |-> volume, density |-> density, weight |-> weight]

\* the locals of the generate block up to the first file write
GenerateLocals(w, l, t, s) ==
    LET made == create_plate(w, l, t)
        volume == calculate_volume(w, l, t)
        density == steel_types[s]
        weight == RDiv(calculate_weight(volume, density), RInt(1000))
    IN  [plate |-> made.plate, vertices |-> made.vertices,
         volume |-> volume, density |-> density, weight |-> weight]

\* what the page and the checks below keep of them (plate goes to the file
\* and to the session)
Kept(loc) ==
    [vertices |-> loc.vertices, volume |-> loc.volume,
     density |-> loc.density, weight |-> loc.weight]

\* chapa.stl after the run: plate.save(stl_path) runs when the button is pressed
SaveStl(old, plate, pressed, outcome) ==
    CASE ~pressed -> old
      [] outcome = "stl_denied" -> old
      [] outcome = "stl_partial" -> PartialFile
      [] OTHER -> Written(plate)

\* chapa.dxf after the run: create_dxf_from_numpy(vertices, dxf_path) runs
\* when the button is pressed and plate.save returned
SaveDxf(old, vertices, pressed, outcome) ==
    CASE ~pressed -> old
      [] StlRaises(outcome) -> old
      [] outcome = "dxf_denied" -> old
      [] outcome = "dxf_partial" -> PartialFile
      [] OTHER -> Written(create_dxf_from_numpy(vertices))

\* variant: the mesh is rebuilt and stored on every rerun
StoreMeshEveryRun(old, plate, pressed, outcome) ==
    IF outcome = "ok" THEN plate ELSE old

\* variant: the mesh is stored before the files are saved
StoreMeshBeforeSave(old, plate, pressed, outcome) ==
    IF pressed THEN plate ELSE old

\* st.session_state.plate_mesh after the run: assigned when the button is
\* pressed and both saves returned
StoreMesh(old, plate, pressed, outcome) ==
    IF pressed /\ outcome = "ok" THEN plate ELSE old

\* st.success(...), when it is reached
Success(weight, outcome) ==
    IF outcome = "ok" THEN <<[weight |-> Format3(weight), dxf_path |-> "chapa.dxf"]>>
    ELSE None

\* the preview and the two download buttons of a run that did not raise;
\* each button serves the file of that name as it is on disk
Page(mesh, opacity) ==
    IF mesh # None
    THEN [chart |-> <<mesh_to_plotly(mesh, opacity)>>,
          download_stl |-> <<"chapa.stl">>, download_dxf |-> <<"chapa.dxf">>]
    ELSE [chart |-> None, download_stl |-> None, download_dxf |-> None]

NoPage == [chart |-> None, download_stl |-> None, download_dxf |-> None]

RunScript(w, l, t, s, o, pressed, outcome) ==
    LET loc == GenerateLocals(w, l, t, s)
        raised == pressed /\ outcome # "ok"
        mesh == StoreMesh(plate_mesh, loc.plate, pressed, outcome)
        stl == SaveStl(stl_file, loc.plate, pressed, outcome)
        dxf == SaveDxf(dxf_file, loc.vertices, pressed, outcome)
    IN  /\ ~pressed => outcome = "ok"
        /\ width' = w
        /\ length' = l
        /\ thickness' = t
        /\ steel_type' = s
        /\ opacity_value' = o
        /\ button' = pressed
        /\ fault' = (CASE ~pressed -> "none"
                       [] StlRaises(outcome) -> "stl"
                       [] DxfRaises(outcome) -> "dxf"
                       [] OTHER -> "none")
        /\ plate_mesh' = mesh
        /\ stl_file' = stl
        /\ dxf_file' = dxf
        /\ mesh_call' = IF pressed /\ outcome = "ok"
                        THEN <<[args |-> <<w, l, t>>, vertices |-> loc.vertices,
                                again |-> /\ mesh_call # None
                                          /\ mesh_call[1].args = <<w, l, t>>,
                                after_fault |-> fault # "none"]>>
                        ELSE mesh_call
        /\ out' = [locals |-> IF pressed THEN <<Kept(loc)>> ELSE None,
                   success |-> IF pressed THEN Success(loc.weight, outcome) ELSE None,
                   page |-> IF raised THEN NoPage ELSE Page(mesh, o)]

(***************************************************************************)
(* The widgets' values a user enters.                                      *)
(***************************************************************************)
DefaultWidth == 100
DefaultLength == 100
DefaultThickness == 10
DefaultOpacity == 10

WidthInputs == (0..MaxDim) \cup {DefaultWidth}
LengthInputs == (0..MaxDim) \cup {DefaultLength}
ThicknessInputs == (0..MaxDim) \cup {DefaultThickness}
SteelInputs == {SteelNames[n] : n \in 1..MaxSteel}
OpacityInputs == (DefaultOpacity - MaxOpacitySteps)..DefaultOpacity

(***************************************************************************)
(* Init: the session after the first run of the script, widgets at their   *)
(* defaults, button not pressed, no file written yet.                      *)
(***************************************************************************)
Init ==
    /\ width = DefaultWidth
    /\ length = DefaultLength
    /\ thickness = DefaultThickness
    /\ steel_type = SteelNames[1]
    /\ opacity_value = DefaultOpacity
    /\ plate_mesh = None
    /\ stl_file = AbsentFile
    /\ dxf_file = AbsentFile
    /\ button = FALSE
    /\ fault = "none"
    /\ out = [locals |-> None, success |-> None, page |-> NoPage]
    /\ mesh_call = None
    /\ runs = 0

\* a rerun without the button: one widget has a new value
WidthRun ==
    \E v \in WidthInputs \ {width} :
        RunScript(v, length, thickness, steel_type, opacity_value, FALSE, "ok")

LengthRun ==
    \E v \in LengthInputs \ {length} :
        RunScript(width, v, thickness, steel_type, opacity_value, FALSE, "ok")

ThicknessRun ==
    \E v \in ThicknessInputs \ {thickness} :
        RunScript(width, length, v, steel_type, opacity_value, FALSE, "ok")

SteelRun ==
    \E s \in SteelInputs \ {steel_type} :
        RunScript(width, length, thickness, s, opacity_value, FALSE, "ok")

OpacityRun ==
    \E o \in OpacityInputs \ {opacity_value} :
        RunScript(width, length, thickness, steel_type, o, FALSE, "ok")

\* the rerun of a press on 'Gerar Chapa'
GenerateRun ==
    \E outcome \in Outcomes :
        RunScript(width, length, thickness, steel_type, opacity_value, TRUE, outcome)

\* a session is explored for MaxRuns reruns
Tick == runs < MaxRuns /\ runs' = runs + 1

ChangeWidth == Tick /\ WidthRun
ChangeLength == Tick /\ LengthRun
ChangeThickness == Tick /\ ThicknessRun
ChangeSteel == Tick /\ SteelRun
ChangeOpacity == Tick /\ OpacityRun
Generate == Tick /\ GenerateRun

Next ==
    \/ ChangeWidth
    \/ ChangeLength
    \/ ChangeThickness
    \/ ChangeSteel
    \/ ChangeOpacity
    \/ Generate

Spec == Init /\ [][Next]_vars

(***************************************************************************)
(* SpecCalc: the generate block applied to a wide range of inputs.  The    *)
(* session starts with the widgets already at any of the inputs (a state   *)
(* the Change actions reach without touching the mesh or the files); then  *)
(* the button is pressed, any number of times.                             *)
(***************************************************************************)
CalcInputs ==
    ((0..MaxCalc) \X (0..MaxCalc) \X (0..MaxCalc))
        \cup {<<50, 20, 5>>, <<DefaultWidth, DefaultLength, DefaultThickness>>}

InitCalc ==
    /\ \E inp \in CalcInputs :
          /\ width = inp[1]
          /\ length = inp[2]
          /\ thickness = inp[3]
    /\ steel_type \in {SteelNames[n] : n \in 1..Len(SteelNames)}
    /\ opacity_value = DefaultOpacity
    /\ plate_mesh = None
    /\ stl_file = AbsentFile
    /\ dxf_file = AbsentFile
    /\ button = FALSE
    /\ fault = "none"
    /\ out = [locals |-> None, success |-> None, page |-> NoPage]
    /\ mesh_call = None
    /\ runs = 0

CalcGenerate == GenerateRun /\ UNCHANGED runs

NextCalc == CalcGenerate

SpecCalc == InitCalc /\ [][NextCalc]_vars

(***************************************************************************)
(* Properties.                                                             *)
(***************************************************************************)
Sub(p, q) == <<p[1] - q[1], p[2] - q[2], p[3] - q[3]>>
Cross(a, b) ==
    <<a[2] * b[3] - a[3] * b[2], a[3] * b[1] - a[1] * b[3], a[1] * b[2] - a[2] * b[1]>>
Dot(a, b) == a[1] * b[1] + a[2] * b[2] + a[3] * b[3]
Sign(n) == IF n > 0 THEN 1 ELSE IF n < 0 THEN -1 ELSE 0
\* (V[b] - V[a]) x (V[c] - V[a]) of a triangle <<V[a], V[b], V[c]>>
Normal(tri) == Cross(Sub(tri[2], tri[1]), Sub(tri[3], tri[1]))

\* C1: in every run of the generate block the volume is w*l*t, the weight in
\* grams is (volume/1000)*density and the mass in kg is w*l*t*density/1000000,
\* for every grade of the table; (50,20,5,"AISI 304") gives 5000 mm3, 40 g and
\* 0.04 kg, (100,100,10) at density 7.85 gives 100000 mm3, 785 g and 0.785 kg.
C1_WeightFormula ==
    button =>
        LET loc == out.locals[1]
            d == steel_types[steel_type]
            grams == calculate_weight(loc.volume, d)
        IN  /\ loc.volume = width * length * thickness
            /\ loc.volume = calculate_volume(width, length, thickness)
            /\ loc.density = d
            /\ grams = Rat(loc.volume * d[1], 1000 * d[2])
            /\ loc.weight = RDiv(grams, RInt(1000))
            /\ loc.weight = Rat(width * length * thickness * d[1], 1000000 * d[2])
            /\ (width = 50 /\ length = 20 /\ thickness = 5 /\ steel_type = "AISI 304") =>
                  /\ loc.volume = 5000
                  /\ grams = <<40, 1>>
                  /\ loc.weight = <<1, 25>>
                  /\ fault = "none" => out.success[1].weight = 40
            /\ (width = 100 /\ length = 100 /\ thickness = 10 /\ d = <<157, 20>>) =>
                  /\ loc.volume = 100000
                  /\ grams = <<785, 1>>
                  /\ loc.weight = <<157, 200>>
                  /\ fault = "none" => out.success[1].weight = 785

C1_Witness ==
    /\ button /\ fault = "none"
    /\ width = 50 /\ length = 20 /\ thickness = 5 /\ steel_type = "AISI 304"
    /\ out.locals[1].volume = 5000
    /\ out.success # None
    /\ out.success[1].weight = 40

\* C2: create_plate returns exactly the 8 vertices (0,0,0),(w,0,0),(w,l,0),
\* (0,l,0),(0,0,t),(w,0,t),(w,l,t),(0,l,t) in this order: vertices 0-3 have
\* z = 0, vertices 4-7 have z = t, vertex i+4 has the x,y of vertex i.
C2_Vertices ==
    button =>
        LET V == out.locals[1].vertices
            w == width
            l == length
            t == thickness
        IN  /\ Len(V) = 8
            /\ V[1] = <<0, 0, 0>> /\ V[2] = <<w, 0, 0>>
            /\ V[3] = <<w, l, 0>> /\ V[4] = <<0, l, 0>>
            /\ V[5] = <<0, 0, t>> /\ V[6] = <<w, 0, t>>
            /\ V[7] = <<w, l, t>> /\ V[8] = <<0, l, t>>
            /\ \A i \in 1..4 :
                  /\ V[i][3] = 0
                  /\ V[i + 4][3] = t
                  /\ V[i + 4][1] = V[i][1]
                  /\ V[i + 4][2] = V[i][2]

C2_Witness ==
    /\ button
    /\ Len(out.locals[1].vertices) = 8
    /\ out.locals[1].vertices[3] = <<50, 20, 0>>
    /\ out.locals[1].vertices[8] = <<0, 20, 5>>

OutwardAxis ==
    << <<0, 0, -1>>, <<0, 0, -1>>,
       <<0, 0, 1>>, <<0, 0, 1>>,
       <<0, -1, 0>>, <<0, -1, 0>>,
       <<1, 0, 0>>, <<1, 0, 0>>,
       <<0, 1, 0>>, <<0, 1, 0>>,
       <<-1, 0, 0>>, <<-1, 0, 0>> >>

\* C3: for w, l, t > 0 each of the 12 triangles of the mesh has a non-zero
\* normal (V[b]-V[a]) x (V[c]-V[a]) that points away from the interior of the
\* box: -z for the two bottom triangles, +z for the two top ones, and the
\* outward axis (-y, +x, +y, -x) for the four pairs of side triangles.
C3_OutwardWinding ==
    (plate_mesh # None /\ width > 0 /\ length > 0 /\ thickness > 0) =>
        /\ Len(plate_mesh) = 12
        /\ \A n \in 1..12 :
              LET tri == plate_mesh[n]
                  N == Normal(tri)
                  \* 6 * (centroid of the triangle - centre of the box)
                  away == <<2 * (tri[1][1] + tri[2][1] + tri[3][1]) - 3 * width,
                            2 * (tri[1][2] + tri[2][2] + tri[3][2]) - 3 * length,
                            2 * (tri[1][3] + tri[2][3] + tri[3][3]) - 3 * thickness>>
              IN  /\ N # <<0, 0, 0>>
                  /\ Dot(N, away) > 0
                  /\ <<Sign(N[1]), Sign(N[2]), Sign(N[3])>> = OutwardAxis[n]

C3_Witness ==
    /\ plate_mesh # None
    /\ width = 50 /\ length = 20 /\ thickness = 5
    /\ Normal(plate_mesh[1]) = <<0, 0, -1000>>
    /\ Normal(plate_mesh[12]) = <<-100, 0, 0>>

Scrambled(V) ==
    [n \in 1..Len(V) |-> IF n <= 4 THEN <<V[n][1], V[n][2], 7>> ELSE <<9, 9, 9>>]

\* C4: the outline written to chapa.dxf is exactly 4 segments, segment i from
\* the (x,y) of vertex i to the (x,y) of vertex (i+1) mod 4: the closed loop
\* (0,0) -> (w,0) -> (w,l) -> (0,l) -> (0,0); neither a z coordinate nor one
\* of vertices 4-7 has any influence on it.
C4_Outline ==
    /\ dxf_file.state = "written" =>
          LET segs == dxf_file.data
          IN  /\ Len(segs) = 4
              /\ segs[1] = [start |-> <<0, 0>>, end |-> <<width, 0>>]
              /\ segs[2] = [start |-> <<width, 0>>, end |-> <<width, length>>]
              /\ segs[3] = [start |-> <<width, length>>, end |-> <<0, length>>]
              /\ segs[4] = [start |-> <<0, length>>, end |-> <<0, 0>>]
              /\ \A i \in 1..4 : segs[i].end = segs[(i % 4) + 1].start
    /\ (button /\ fault = "none") =>
          LET V == out.locals[1].vertices
          IN  /\ \A i \in 0..3 :
                    /\ dxf_file.data[i + 1].start = SubSeq(V[i + 1], 1, 2)
                    /\ dxf_file.data[i + 1].end = SubSeq(V[((i + 1) % 4) + 1], 1, 2)
              /\ create_dxf_from_numpy(Scrambled(V)) = dxf_file.data

C4_Witness ==
    /\ button /\ fault = "none"
    /\ width = 50 /\ length = 20
    /\ dxf_file.state = "written"
    /\ dxf_file.data[3] = [start |-> <<50, 20>>, end |-> <<0, 20>>]

\* C9: the figure of the 12-triangle mesh has X, Y, Z of 36 entries, entry
\* 3n+m being corner m of mesh triangle n, and i, j, k of 12 entries with
\* (i[n], j[n], k[n]) = (3n, 3n+1, 3n+2): every index is in 0..35 and rendered
\* triangle n has the three corners of mesh triangle n in the face's order.
\* (Sequences are numbered from 1 here, the values of i, j, k from 0 as in the
\* script.)
C9_PlotlyIndices ==
    out.page.chart # None =>
        LET fig == out.page.chart[1]
            At(q) == <<fig.x[q + 1], fig.y[q + 1], fig.z[q + 1]>>
        IN  /\ Len(plate_mesh) = 12
            /\ Len(fig.x) = 36 /\ Len(fig.y) = 36 /\ Len(fig.z) = 36
            /\ Len(fig.i) = 12 /\ Len(fig.j) = 12 /\ Len(fig.k) = 12
            /\ \A n \in 0..11 :
                  /\ \A m \in 0..2 : At(3 * n + m) = plate_mesh[n + 1][m + 1]
                  /\ fig.i[n + 1] = 3 * n
                  /\ fig.j[n + 1] = 3 * n + 1
                  /\ fig.k[n + 1] = 3 * n + 2
                  /\ {fig.i[n + 1], fig.j[n + 1], fig.k[n + 1]} \subseteq 0..35
                  /\ <<At(fig.i[n + 1]), At(fig.j[n + 1]), At(fig.k[n + 1])>>
                        = plate_mesh[n + 1]
            /\ fig.opacity = opacity_value

C9_Witness ==
    /\ out.page.chart # None
    /\ ~button
    /\ opacity_value # DefaultOpacity
    /\ mesh_call[1].args = <<DefaultWidth, 1, DefaultThickness>>
    /\ out.page.chart[1].x[36] = 0
    /\ out.page.chart[1].y[36] = 1
    /\ out.page.chart[1].z[36] = 10
    /\ out.page.chart[1].k[12] = 35

C5_Step ==
    /\ ~button' =>
          /\ plate_mesh' = plate_mesh
          /\ stl_file' = stl_file
          /\ dxf_file' = dxf_file
          /\ plate_mesh # None =>
                out'.page.chart = <<mesh_to_plotly(plate_mesh, opacity_value')>>
          /\ plate_mesh = None => out'.page.chart = None
    /\ plate_mesh' # plate_mesh => (button' /\ fault' = "none")
    /\ (stl_file' # stl_file \/ dxf_file' # dxf_file) => button'

\* C5: the session mesh is None from session start until the first successful
\* generate; only the rerun of a button press replaces the session mesh or
\* writes chapa.stl / chapa.dxf; a rerun without the button leaves the three
\* unchanged and re-renders the stored mesh at the current opacity, whatever
\* the dimension inputs are by then.
C5_OnlyGenerateReplaces ==
    /\ plate_mesh = None
    /\ [](mesh_call = None => plate_mesh = None)
    /\ [][C5_Step]_vars

C5_Witness ==
    /\ ~button
    /\ plate_mesh # None
    /\ mesh_call[1].args # <<width, length, thickness>>
    /\ opacity_value # DefaultOpacity
    /\ out.page.chart = <<mesh_to_plotly(plate_mesh, opacity_value)>>
    /\ stl_file = Written(plate_mesh)

C6_Step ==
    /\ fault' # "none" =>
          /\ button'
          /\ plate_mesh' = plate_mesh
          /\ out'.success = None
          /\ out'.page = NoPage
          /\ fault' = "stl" => dxf_file' = dxf_file
    /\ (fault # "none" /\ button' /\ fault' = "none") =>
          /\ plate_mesh' = create_plate(width', length', thickness').plate
          /\ stl_file' = Written(plate_mesh')
          /\ dxf_file' = Written(create_dxf_from_numpy(out'.locals[1].vertices))
          /\ out'.success # None

\* C6: a generate run in which writing chapa.stl or chapa.dxf raises is
\* aborted as a whole: no later step of it runs (no DXF write after a failed
\* STL write, no success message, no preview), the session mesh keeps its
\* value; and the failure is fatal to that attempt only: after it a generate
\* run can complete, and one that does replaces the mesh and both files.
C6_WriteFailureAborts == [][C6_Step]_vars

\* a generate run that completed right after one that raised
C6_Witness ==
    /\ button
    /\ fault = "none"
    /\ mesh_call[1].after_fault
    /\ out.success # None
    /\ plate_mesh = create_plate(width, length, thickness).plate
    /\ stl_file = Written(plate_mesh)
    /\ dxf_file.state = "written"

\* C7: with thickness 0 (any w, l >= 0) the generate run computes volume 0 and
\* weight 0, and it raises nowhere but in a file write; when no write raises
\* it runs to completion: the 12-triangle mesh is built with the top vertices
\* on the bottom ones and side triangles of zero area, both files are written
\* and the session mesh is set.
C7_ZeroThickness ==
    thickness = 0 =>
        /\ button =>
              /\ out.locals[1].volume = 0
              /\ out.locals[1].weight = <<0, 1>>
              /\ \A i \in 1..4 :
                    out.locals[1].vertices[i + 4] = out.locals[1].vertices[i]
              /\ fault \in {"none", "stl", "dxf"}
        /\ (button /\ fault = "none") =>
              /\ Len(plate_mesh) = 12
              /\ \A n \in 1..12 : \A m \in 1..3 : plate_mesh[n][m][3] = 0
              /\ \A n \in 5..12 : Normal(plate_mesh[n]) = <<0, 0, 0>>
              /\ stl_file = Written(plate_mesh)
              /\ dxf_file.state = "written"
              /\ Len(dxf_file.data) = 4
              /\ out.success # None
              /\ out.success[1].weight = 0
              /\ out.page.chart # None

C7_Witness ==
    /\ thickness = 0 /\ width > 0 /\ length > 0
    /\ button /\ fault = "none"
    /\ Len(plate_mesh) = 12
    /\ Normal(plate_mesh[3]) # <<0, 0, 0>>
    /\ Normal(plate_mesh[5]) = <<0, 0, 0>>
    /\ stl_file = Written(plate_mesh)
    /\ dxf_file.state = "written"

C8_Step ==
    button' =>
        /\ (mesh_call # None /\ mesh_call[1].args = <<width', length', thickness'>>) =>
              /\ out'.locals[1].vertices = mesh_call[1].vertices
              /\ fault' = "none" => plate_mesh' = plate_mesh
        /\ fault' = "none" =>
              /\ Len(plate_mesh') = 12
              /\ \A n \in 1..12 : \A j \in 1..3 : \A c \in 1..3 :
                    plate_mesh'[n][j][c]
                        = float32(out'.locals[1].vertices[faces[n][j] + 1][c])

C10_FilesMatchMesh ==
    plate_mesh # None =>
        /\ stl_file = Written(plate_mesh)
        /\ dxf_file = Written(create_dxf_from_numpy(mesh_call[1].vertices))

====
